---- MODULE Spec2Model ----
(***************************************************************************)
(* Model of OPUSExtractor (xml_konverter.py): the field extractors, the    *)
(* type dispatch, the record assembler, the document-type inventory, the   *)
(* selection and the three writers (CSV, JSON, TXT).                       *)
(*                                                                         *)
(* Python values: a str is a TLA+ string, None is the string None below    *)
(* (no attribute value of the model is spelled that way), a dict is a      *)
(* function from keys to values, a list is a sequence.  A call either      *)
(* returns (Ok) or raises (Raise); exc names the exception class.          *)
(***************************************************************************)
EXTENDS Integers, Sequences, FiniteSets, TLC

\* ----------------------------------------------------------------------
\* Bounds
\* ----------------------------------------------------------------------
MaxDocs == 2
MaxCalls == 2

\* ----------------------------------------------------------------------
\* Python values and call outcomes
\* ----------------------------------------------------------------------
None == "<None>"
NoExc == "<no exception>"

Ok(v) == [exc |-> NoExc, val |-> v]
Raise(e) == [exc |-> e, val |-> None]
Raised(r) == r.exc # NoExc

RECURSIVE FirstExc(_)
\* The exception of the first raising evaluation in a left-to-right
\* sequence of evaluations, NoExc when none raises.
FirstExc(rs) ==
    IF rs = <<>> THEN NoExc
    ELSE IF Raised(Head(rs)) THEN Head(rs).exc
    ELSE FirstExc(Tail(rs))

EmptyDict == [k \in {} |-> None]

\* {**a, **b}: the later mapping wins on a shared key.
Merge(a, b) == b @@ a

\* ----------------------------------------------------------------------
\* The document tree (Beautiful Soup tags): a tag has a name, the
\* attributes that are present, and child tags in document order.
\* ----------------------------------------------------------------------
El(tag, attrs) == [tag |-> tag, attrs |-> attrs, children |-> <<>>]
Doc(attrs, children) ==
    [tag |-> "Opus_Document", attrs |-> attrs, children |-> children]

\* Tag.get(name, default)
get(el, name, default) ==
    IF name \in DOMAIN el.attrs THEN el.attrs[name] ELSE default

\* Tag.find_all(tag)
find_all(doc, tag) == SelectSeq(doc.children, LAMBDA c : c.tag = tag)

\* str.title() on the role names the program passes.
Title(role) ==
    CASE role = "author" -> "Author"
      [] role = "referee" -> "Referee"
      [] role = "advisor" -> "Advisor"
      [] OTHER -> role

\* str.lower() on the enrichment key names of the document pool.
Lower(s) ==
    CASE s = "Title" -> "title"
      [] s = "DOI" -> "doi"
      [] s = "Kds_Type_DocumentType" -> "kds_type_documenttype"
      [] OTHER -> s

\* int(s): the integer a decimal string denotes; ValueError otherwise.
IntOf(s) ==
    CASE s = "1609459200" -> Ok(1609459200)
      [] s = "86399" -> Ok(86399)
      [] s = "951782400" -> Ok(951782400)
      [] OTHER -> Raise("ValueError")

Pad(n, w) ==
    LET s == ToString(n)
    IN  IF w = 4 /\ n < 10 THEN "000" \o s
        ELSE IF w = 4 /\ n < 100 THEN "00" \o s
        ELSE IF w = 4 /\ n < 1000 THEN "0" \o s
        ELSE IF w = 2 /\ n < 10 THEN "0" \o s
        ELSE s

\* datetime.fromtimestamp(ts).strftime("%Y-%m-%d"), local time taken as UTC:
\* days since the epoch to a proleptic Gregorian calendar date.
strftime_date(ts) ==
    LET z == (ts \div 86400) + 719468
        era == z \div 146097
        doe == z - era * 146097
        yoe == (doe - doe \div 1460 + doe \div 36524 - doe \div 146096) \div 365
        doy == doe - (365 * yoe + yoe \div 4 - yoe \div 100)
        mp == (5 * doy + 2) \div 153
        d == doy - (153 * mp + 2) \div 5 + 1
        m == IF mp < 10 THEN mp + 3 ELSE mp - 9
        y == yoe + era * 400 + (IF m <= 2 THEN 1 ELSE 0)
    IN  Pad(y, 4) \o "-" \o Pad(m, 2) \o "-" \o Pad(d, 2)

\* ----------------------------------------------------------------------
\* Methods for fetching elements
\* ----------------------------------------------------------------------
RECURSIVE Join(_, _)
\* sep.join(strs)
Join(strs, sep) ==
    IF strs = <<>> THEN ""
    ELSE IF Len(strs) = 1 THEN strs[1]
    ELSE strs[1] \o sep \o Join(Tail(strs), sep)

get_persons(doc, role) ==
    LET persons == find_all(doc, "Person" \o Title(role))
        names == [i \in 1..Len(persons) |->
                    get(persons[i], "FirstName", "") \o " "
                        \o get(persons[i], "LastName", "")]
    IN  Ok(Join(names, "|"))

get_publication_year(doc) ==
    LET year == get(doc, "PublishedYear", None)
        dates == find_all(doc, "PublishedDate")
    IN  IF year # None /\ year # "" THEN Ok(year)
        ELSE IF dates = <<>> THEN Ok("")      \* AttributeError swallowed
        ELSE Ok(get(dates[1], "Year", ""))

get_title_parent(doc) ==
    LET element == find_all(doc, "TitleParent")
    IN  IF element # <<>> THEN Ok(get(element[1], "Value", "")) ELSE Ok("")

RECURSIVE get_identifier_from(_, _)
get_identifier_from(identifiers, type_) ==
    IF identifiers = <<>> THEN Ok("")
    ELSE IF "Type" \notin DOMAIN Head(identifiers).attrs THEN Raise("KeyError")
    ELSE IF Head(identifiers).attrs["Type"] = type_
         THEN Ok(get(Head(identifiers), "Value", ""))
    ELSE get_identifier_from(Tail(identifiers), type_)

get_identifier(doc, type_) ==
    get_identifier_from(find_all(doc, "Identifier"), type_)

\* ----------------------------------------------------------------------
\* Methods to fetch elements for 'Kerndatensatz-Forschung' (kds)
\* ----------------------------------------------------------------------
\* Variant of enrichment_key: the key without the "enrichment_" prefix.
enrichment_key_unprefixed(e) == Lower(get(e, "KeyName", ""))

enrichment_key(e) == "enrichment_" \o Lower(get(e, "KeyName", ""))

RECURSIVE enrichment_dict(_)
\* The dict comprehension over the Enrichment tags: a later tag with the
\* same key replaces the earlier one.
enrichment_dict(es) ==
    IF es = <<>> THEN EmptyDict
    ELSE Merge(enrichment_key(Head(es)) :> get(Head(es), "Value", ""),
               enrichment_dict(Tail(es)))

get_enrichment_fields(doc) == Ok(enrichment_dict(find_all(doc, "Enrichment")))

required_collection_types == {"kds_type_publicationtype", "kds_type_documenttype"}

RECURSIVE collection_dict(_)
collection_dict(cs) ==
    IF cs = <<>> THEN EmptyDict
    ELSE IF get(Head(cs), "RoleName", None) \in required_collection_types
         THEN Merge(get(Head(cs), "RoleName", None) :> get(Head(cs), "Name", ""),
                    collection_dict(Tail(cs)))
    ELSE collection_dict(Tail(cs))

get_collection_fields(doc) == Ok(collection_dict(find_all(doc, "Collection")))

\* ----------------------------------------------------------------------
\* Methods for additional elements from specific document types
\* ----------------------------------------------------------------------
get_journal_data(doc) ==
    LET tp == get_title_parent(doc)
        doi == get_identifier(doc, "doi")
        issn == get_identifier(doc, "issn")
        exc == FirstExc(<<tp, doi, issn>>)
    IN  IF exc # NoExc THEN Raise(exc)
        ELSE Ok([parent_title |-> tp.val,
                 issue |-> get(doc, "Issue", ""),
                 volume |-> get(doc, "Volume", ""),
                 page_first |-> get(doc, "PageFirst", ""),
                 page_last |-> get(doc, "PageLast", ""),
                 doi |-> doi.val,
                 issn |-> issn.val])

get_conference_object_data(doc) ==
    LET tp == get_title_parent(doc)
        doi == get_identifier(doc, "doi")
        exc == FirstExc(<<tp, doi>>)
    IN  IF exc # NoExc THEN Raise(exc)
        ELSE Ok([parent_title |-> tp.val, doi |-> doi.val])

get_book_collection_data(doc) ==
    LET tp == get_title_parent(doc)
        doi == get_identifier(doc, "doi")
        exc == FirstExc(<<tp, doi>>)
    IN  IF exc # NoExc THEN Raise(exc)
        ELSE Ok([collection_title |-> tp.val,
                 page_first |-> get(doc, "PageFirst", ""),
                 page_last |-> get(doc, "PageLast", ""),
                 doi |-> doi.val])

get_book_data(doc) ==
    LET isbn == get_identifier(doc, "isbn")
    IN  IF Raised(isbn) THEN isbn
        ELSE Ok([publisher |-> get(doc, "PublisherName", ""),
                 place |-> get(doc, "PublisherPlace", ""),
                 isbn |-> isbn.val])

\* The date_accepted local of get_thesis_data: None when the document has
\* no ThesisDateAccepted tag, else the tag's UnixTimestamp as a date.
thesis_date_accepted(doc) ==
    LET found == find_all(doc, "ThesisDateAccepted")
    IN  IF found = <<>> THEN Ok(None)
        ELSE IF "UnixTimestamp" \notin DOMAIN found[1].attrs
             THEN Raise("KeyError")
        ELSE LET ts == IntOf(found[1].attrs["UnixTimestamp"])
             IN  IF Raised(ts) THEN ts ELSE Ok(strftime_date(ts.val))

get_thesis_data(doc) ==
    LET date_accepted == thesis_date_accepted(doc)
        doi == get_identifier(doc, "doi")
        referees == get_persons(doc, "referee")
        advisors == get_persons(doc, "advisor")
        exc == FirstExc(<<date_accepted, doi, referees, advisors>>)
    IN  IF exc # NoExc THEN Raise(exc)
        ELSE Ok([accepted |-> date_accepted.val,
                 doi |-> doi.val,
                 referees |-> referees.val,
                 advisors |-> advisors.val])

get_grey_lit_data(doc) ==
    LET isbn == get_identifier(doc, "isbn")
        doi == get_identifier(doc, "doi")
        exc == FirstExc(<<isbn, doi>>)
    IN  IF exc # NoExc THEN Raise(exc)
        ELSE Ok([contributingcorporation |-> get(doc, "ContributingCorporation", ""),
                 creatingcorporation |-> get(doc, "CreatingCorporation", ""),
                 isbn |-> isbn.val,
                 doi |-> doi.val])

\* ----------------------------------------------------------------------
\* 'Control center' for specific document data
\* ----------------------------------------------------------------------
\* The dict literal of get_specific_doc_data: every value is evaluated, in
\* this order, when the literal is built.
dispatch_table(doc) ==
    [article |-> get_journal_data(doc),
     contributiontoperiodical |-> get_journal_data(doc),
     periodicalpart |-> get_journal_data(doc),
     bachelorthesis |-> get_thesis_data(doc),
     doctoralthesis |-> get_thesis_data(doc),
     masterthesis |-> get_thesis_data(doc),
     conferenceobject |-> get_conference_object_data(doc),
     bookpart |-> get_book_collection_data(doc),
     book |-> get_book_data(doc)]

dispatch_order ==
    <<"article", "contributiontoperiodical", "periodicalpart",
      "bachelorthesis", "doctoralthesis", "masterthesis",
      "conferenceobject", "bookpart", "book">>

\* table.get(doc_type, default), once the table and the default are built.
dispatch_get(table, default, doc_type) ==
    LET exc == FirstExc([i \in 1..Len(dispatch_order) |-> table[dispatch_order[i]]]
                        \o <<default>>)
    IN  IF exc # NoExc THEN Raise(exc)
        ELSE IF doc_type \in DOMAIN table THEN table[doc_type]
        ELSE default

get_specific_doc_data(doc, doc_type) ==
    dispatch_get(dispatch_table(doc), get_grey_lit_data(doc), doc_type)

\* ----------------------------------------------------------------------
\* Methods for extracting XML content
\* ----------------------------------------------------------------------
title_main(doc) ==
    LET found == find_all(doc, "TitleMain")
    IN  IF found = <<>> THEN Raise("AttributeError")
        ELSE Ok(get(found[1], "Value", ""))

basic_doc_data(doc_type, publication_year, authors, title) ==
    ("type" :> doc_type) @@ ("year" :> publication_year)
        @@ ("author(s)" :> authors) @@ ("title" :> title)

\* {**basic_doc_data, **specific_doc_data, **enrichment_fields,
\*  **collection_fields}
merge_doc_data(basic, specific, enrichment, collection) ==
    Merge(Merge(Merge(basic, specific), enrichment), collection)

\* The body of get_doc_from_opus_soup on the outcomes of its calls, which
\* are made in this order.
assemble(doc_type, title, authors, year, specific, enrichment, collection) ==
    LET exc == FirstExc(<<title, authors, year, specific, enrichment, collection>>)
    IN  IF exc # NoExc THEN Raise(exc)
        ELSE Ok(merge_doc_data(
                    basic_doc_data(doc_type, year.val, authors.val, title.val),
                    specific.val, enrichment.val, collection.val))

get_doc_from_opus_soup(doc, doc_type) ==
    assemble(doc_type, title_main(doc), get_persons(doc, "author"),
             get_publication_year(doc), get_specific_doc_data(doc, doc_type),
             get_enrichment_fields(doc), get_collection_fields(doc))

\* x in doc_types, for a list or tuple doc_types.
In(x, doc_types) == \E i \in 1..Len(doc_types.items) : doc_types.items[i] = x

preferred(doc, doc_types) ==
    doc_types.cls = "NoneType" \/ In(get(doc, "Type", None), doc_types)

\* Variant of Cons: the record goes behind the records of the later documents.
ConsBehind(rec, rest) ==
    IF Raised(rec) THEN rec
    ELSE IF Raised(rest) THEN rest
    ELSE Ok(rest.val \o <<rec.val>>)

\* A record put in front of the records of the documents after it; an
\* exception of either ends the call.
Cons(rec, rest) ==
    IF Raised(rec) THEN rec
    ELSE IF Raised(rest) THEN rest
    ELSE Ok(<<rec.val>> \o rest.val)

RECURSIVE preferred_from(_, _)
\* The list comprehension of get_preferred_document_types over the documents
\* left: the first record that cannot be built ends the call.
preferred_from(soup, doc_types) ==
    IF soup = <<>> THEN Ok(<<>>)
    ELSE IF ~preferred(Head(soup), doc_types)
         THEN preferred_from(Tail(soup), doc_types)
    ELSE Cons(get_doc_from_opus_soup(Head(soup), get(Head(soup), "Type", None)),
              preferred_from(Tail(soup), doc_types))

\* Code-point order of the type tags the model's documents carry.
StrOrder == <<"article", "doctoralthesis", "greylit", "report">>
Rank(s) == CHOOSE i \in 1..Len(StrOrder) : StrOrder[i] = s
StrLt(a, b) == Rank(a) < Rank(b)

RECURSIVE sorted_keeping_order(_)
\* Variant of sorted: takes the elements in no particular order (here the
\* greatest first).
sorted_keeping_order(S) ==
    IF S = {} THEN <<>>
    ELSE LET last == CHOOSE x \in S : \A y \in S \ {x} : StrLt(y, x)
         IN  <<last>> \o sorted_keeping_order(S \ {last})

RECURSIVE sorted(_)
\* sorted(set): repeatedly take the least element.
sorted(S) ==
    IF S = {} THEN <<>>
    ELSE LET least == CHOOSE x \in S : \A y \in S \ {x} : StrLt(x, y)
         IN  <<least>> \o sorted(S \ {least})

identify_available_doc_types_of(soup) ==
    Ok(sorted({get(soup[i], "Type", "greylit") : i \in 1..Len(soup)}))

\* ----------------------------------------------------------------------
\* Inputs: documents of an OPUS4 export and doc_types arguments
\* ----------------------------------------------------------------------
ArticleDoc ==
    Doc([Type |-> "article", PublishedYear |-> "2020", Issue |-> "3"],
        << El("TitleMain", [Value |-> "On Computing"]),
           El("PersonAuthor", [FirstName |-> "Ada", LastName |-> "Lovelace"]),
           El("PersonAuthor", [LastName |-> "Babbage"]),
           El("TitleParent", [Value |-> "Annals"]),
           El("Identifier", [Type |-> "issn", Value |-> "1234-5678"]),
           El("Identifier", [Type |-> "doi", Value |-> "10.1/x"]),
           El("Enrichment", [KeyName |-> "Title", Value |-> "e1"]),
           El("Enrichment", [KeyName |-> "title", Value |-> "e2"]),
           El("Enrichment", [KeyName |-> "DOI", Value |-> "e3"]),
           El("Collection", [RoleName |-> "kds_type_documenttype", Name |-> "Aufsatz"]),
           El("Collection", [RoleName |-> "institutes", Name |-> "Physik"]) >>)

ThesisDoc ==
    Doc([Type |-> "doctoralthesis"],
        << El("TitleMain", [Value |-> "A Thesis"]),
           El("PersonAuthor", [FirstName |-> "Kurt", LastName |-> "Goedel"]),
           El("PersonReferee", [FirstName |-> "Hans", LastName |-> "Hahn"]),
           El("PublishedDate", [Year |-> "2021"]),
           El("ThesisDateAccepted", [UnixTimestamp |-> "1609459200"]),
           El("Identifier", [Type |-> "doi", Value |-> "10.2/y"]),
           El("Enrichment", [KeyName |-> "Kds_Type_DocumentType", Value |-> "e4"]),
           El("Collection", [RoleName |-> "kds_type_publicationtype", Name |-> "Dissertation"]) >>)

ThesisNoDateDoc ==
    Doc([Type |-> "doctoralthesis", PublishedYear |-> ""],
        << El("TitleMain", [Value |-> "Unfinished"]) >>)

UnlabeledDoc ==
    Doc([CreatingCorporation |-> "Lab"],
        << El("TitleMain", EmptyDict),
           El("Enrichment", [Value |-> "e5"]) >>)

GreylitDoc ==
    Doc([Type |-> "greylit", PublishedYear |-> "1999"],
        << El("TitleMain", [Value |-> "Flyer"]) >>)

ReportDoc ==
    Doc([Type |-> "report", ContributingCorporation |-> "Institute"],
        << El("TitleMain", [Value |-> "Report"]),
           El("Identifier", [Type |-> "isbn", Value |-> "978-3"]) >>)

NoTitleDoc ==
    Doc([Type |-> "article", PublishedYear |-> "2018"], <<>>)

UntypedIdentifierDoc ==
    Doc([Type |-> "report"],
        << El("TitleMain", [Value |-> "Loose"]),
           El("Identifier", [Value |-> "10.3/z"]) >>)

ArticleBadDateDoc ==
    Doc([Type |-> "article"],
        << El("TitleMain", [Value |-> "Stray date"]),
           El("ThesisDateAccepted", EmptyDict) >>)

DocPool ==
    {ArticleDoc, ThesisDoc, ThesisNoDateDoc, UnlabeledDoc, GreylitDoc, ReportDoc,
     NoTitleDoc, UntypedIdentifierDoc, ArticleBadDateDoc}

\* The documents the writer runs load.
WriterPool == {ArticleDoc, ThesisNoDateDoc, UnlabeledDoc, NoTitleDoc}

SeqsUpTo(S, n) == UNION {[1..k -> S] : k \in 0..n}

\* A doc_types argument: its Python class and, for a container, its items.
NoDocTypes == [cls |-> "NoneType", items |-> <<>>]
ListOf(items) == [cls |-> "list", items |-> items]
TupleOf(items) == [cls |-> "tuple", items |-> items]
StrArg(s) == [cls |-> "str", items |-> <<s>>]
SetOf(items) == [cls |-> "set", items |-> items]

\* doc_types arguments that are None, a list or a tuple.
SequenceArgs ==
    {NoDocTypes, ListOf(<<"article">>), ListOf(<<"doctoralthesis">>),
     ListOf(<<"greylit">>), ListOf(<<"report">>),
     TupleOf(<<"doctoralthesis", "article", "article">>), ListOf(<<None>>)}

\* Type strings handed to the dispatch.
TypeArgs ==
    {"article", "masterthesis", "conferenceobject", "bookpart", "book", "report",
     None}

\* (filename, doc_types) arguments of the writer calls.
CsvArgs ==
    {<<"out", NoDocTypes>>, <<"out", ListOf(<<"article">>)>>,
     <<"out", ListOf(<<None>>)>>, <<"out", StrArg("article")>>,
     <<"out", SetOf(<<"article">>)>>, <<None, NoDocTypes>>}
JsonArgs ==
    {<<"out", NoDocTypes>>, <<"out", TupleOf(<<"doctoralthesis">>)>>,
     <<"out", ListOf(<<None>>)>>, <<"out", SetOf(<<"article">>)>>}
TxtArgs ==
    {<<"out", NoDocTypes>>, <<"out", ListOf(<<None>>)>>,
     <<"out", StrArg("article")>>}

\* ----------------------------------------------------------------------
\* State
\* ----------------------------------------------------------------------
VARIABLES
    opus_soup,   \* self.opus_soup: the loaded Opus_Document tags, in order
    fs,          \* the working directory: <<filename, extension>> -> lines
    ncalls,      \* writer calls made so far
    ret,         \* the last call: its name, arguments and outcome
    emitted      \* history: per CSV file, the record list each to_csv call
                 \* that wrote the file handed to the writer, in call order

vars == <<opus_soup, fs, ncalls, ret, emitted>>

NoCall == [op |-> "none"]

\* ----------------------------------------------------------------------
\* Methods for saving files
\* ----------------------------------------------------------------------
\* str(uuid.uuid4()): a name no earlier call has used.
uuid4 == "uuid-" \o ToString(ncalls + 1)

\* Variant of check_arguments: no isinstance check of doc_types.
check_arguments_unchecked(filename, doc_types) ==
    Ok(<<IF filename = None THEN uuid4 ELSE filename, doc_types>>)

check_arguments(filename, doc_types) ==
    IF doc_types.cls \notin {"list", "tuple", "NoneType"} THEN Raise("TypeError")
    ELSE Ok(<<IF filename = None THEN uuid4 ELSE filename, doc_types>>)

get_preferred_document_types(doc_types) == preferred_from(opus_soup, doc_types)

identify_available_doc_types == identify_available_doc_types_of(opus_soup)

\* open(f"{filename}{ext}", "a"): the lines of the file, none when it is
\* created.
OpenAppend(name) == IF name \in DOMAIN fs THEN fs[name] ELSE <<>>

\* header = {k for d in docs for k in d.keys()}
csv_header(docs) == UNION {DOMAIN docs[i] : i \in 1..Len(docs)}

\* The csv writer writes None as the empty field.
csv_field(v) == IF v = None THEN "" ELSE v

\* A line of a CSV file: the header names, or the fields of one row by
\* column name (the column order is the iteration order of the header set,
\* the same for every line one call writes).
HeaderLine(header) == [kind |-> "header", cells |-> header]
\* Variant of RowLine: the row holds the record's own keys only.
RowLineOwnKeys(header, dic) ==
    [kind |-> "row", cells |-> [h \in DOMAIN dic |-> csv_field(dic[h])]]

RowLine(header, dic) ==
    [kind |-> "row",
     cells |-> [h \in header |-> csv_field(IF h \in DOMAIN dic THEN dic[h] ELSE "")]]

\* Variant of csv_write: the header is written by every call.
csv_write_header_always(old, docs) ==
    old \o <<HeaderLine(csv_header(docs))>>
        \o [i \in 1..Len(docs) |-> RowLine(csv_header(docs), docs[i])]

\* The body of the with block of to_csv.
csv_write(old, docs) ==
    LET header == csv_header(docs)
    IN  old \o (IF Len(old) = 0 THEN <<HeaderLine(header)>> ELSE <<>>)
            \o [i \in 1..Len(docs) |-> RowLine(header, docs[i])]

\* json.dumps(docs): one array of objects; None becomes null.
json_value(v) == IF v = None THEN [json |-> "null"] ELSE [json |-> "string", s |-> v]
json_dumps(docs) ==
    [kind |-> "json_array",
     items |-> [i \in 1..Len(docs) |->
                  [json |-> "object",
                   members |-> [k \in DOMAIN docs[i] |-> json_value(docs[i][k])]]]]

\* Variant of json_write: the file is opened for appending.
json_write_append(old, docs) == old \o <<json_dumps(docs)>>

\* open(name, "w") and one write: whatever the file held is gone.
json_write(old, docs) == <<json_dumps(docs)>>

\* pprint(dic, stream=f) for each record, appended.
txt_write(old, docs) ==
    old \o [i \in 1..Len(docs) |-> [kind |-> "pprint", dic |-> docs[i]]]

\* The record lists written to a CSV file so far.
Logged(name) == IF name \in DOMAIN emitted THEN emitted[name] ELSE <<>>

\* One writer call: check_arguments, get_preferred_document_types, then the
\* file is opened and written; an exception leaves the directory as it was.
WriterStep(op, ext, filename, doc_types, checked, docs) ==
    LET name == <<checked.val[1], ext>>
        old == OpenAppend(name)
        new == CASE op = "to_csv" -> csv_write(old, docs.val)
                 [] op = "to_json" -> json_write(old, docs.val)
                 [] op = "to_txt" -> txt_write(old, docs.val)
    IN  /\ ncalls < MaxCalls
        /\ ncalls' = ncalls + 1
        /\ opus_soup' = opus_soup
        /\ emitted' = IF Raised(checked) \/ Raised(docs) \/ op # "to_csv" THEN emitted
                       ELSE (name :> (Logged(name) \o <<docs.val>>)) @@ emitted
        /\ IF Raised(checked)
           THEN /\ fs' = fs
                /\ ret' = [op |-> op, filename |-> filename, doc_types |-> doc_types,
                           name |-> <<None, ext>>, exc |-> checked.exc]
           ELSE IF Raised(docs)
           THEN /\ fs' = fs
                /\ ret' = [op |-> op, filename |-> filename, doc_types |-> doc_types,
                           name |-> name, exc |-> docs.exc]
           ELSE /\ fs' = (name :> new) @@ fs
                /\ ret' = [op |-> op, filename |-> filename, doc_types |-> doc_types,
                           name |-> name, exc |-> NoExc]

WriterCall(op, ext, filename, doc_types) ==
    WriterStep(op, ext, filename, doc_types, check_arguments(filename, doc_types),
               get_preferred_document_types(doc_types))

to_csv == \E a \in CsvArgs : WriterCall("to_csv", ".csv", a[1], a[2])
to_json == \E a \in JsonArgs : WriterCall("to_json", ".json", a[1], a[2])
to_txt == \E a \in TxtArgs : WriterCall("to_txt", ".txt", a[1], a[2])

\* ----------------------------------------------------------------------
\* Calls of the extraction methods on the loaded documents
\* ----------------------------------------------------------------------
CallIdentify ==
    /\ ret' = [op |-> "identify_available_doc_types",
               res |-> identify_available_doc_types]
    /\ UNCHANGED <<opus_soup, fs, ncalls, emitted>>

CallPreferred ==
    \E dt \in SequenceArgs :
        /\ ret' = [op |-> "get_preferred_document_types", doc_types |-> dt,
                   res |-> get_preferred_document_types(dt)]
        /\ UNCHANGED <<opus_soup, fs, ncalls, emitted>>

CallGetDoc ==
    \E i \in 1..Len(opus_soup) :
        /\ ret' = [op |-> "get_doc_from_opus_soup", doc |-> i,
                   doc_type |-> get(opus_soup[i], "Type", None),
                   res |-> get_doc_from_opus_soup(
                               opus_soup[i], get(opus_soup[i], "Type", None))]
        /\ UNCHANGED <<opus_soup, fs, ncalls, emitted>>

CallSpecific ==
    \E i \in 1..Len(opus_soup), t \in TypeArgs :
        /\ ret' = [op |-> "get_specific_doc_data", doc |-> i, doc_type |-> t,
                   res |-> get_specific_doc_data(opus_soup[i], t)]
        /\ UNCHANGED <<opus_soup, fs, ncalls, emitted>>

\* ----------------------------------------------------------------------
\* Specifications
\* ----------------------------------------------------------------------
\* After construction: the documents are loaded, nothing is written.
Init ==
    /\ opus_soup \in SeqsUpTo(DocPool, MaxDocs)
    /\ fs = EmptyDict
    /\ ncalls = 0
    /\ ret = NoCall
    /\ emitted = EmptyDict

Next == CallIdentify \/ CallPreferred \/ CallGetDoc \/ CallSpecific

\* The extraction methods applied to every loaded document list.
Spec == Init /\ [][Next]_vars

InitIO ==
    /\ opus_soup \in SeqsUpTo(WriterPool, MaxDocs)
    /\ fs = EmptyDict
    /\ ncalls = 0
    /\ ret = NoCall
    /\ emitted = EmptyDict

NextIO == to_csv \/ to_json \/ to_txt

\* Sequences of writer calls on one loaded document list.
SpecIO == InitIO /\ [][NextIO]_vars

\* ----------------------------------------------------------------------
\* Properties of the extraction methods (checked under Spec)
\* ----------------------------------------------------------------------
\* The type attribute of the i-th loaded document, None when it has none.
TypeAttr(i) == get(opus_soup[i], "Type", None)

\* The documents whose type attribute is in doc_types, all when it is None.
SelectedIndices(doc_types) ==
    {i \in 1..Len(opus_soup) :
        \/ doc_types.cls = "NoneType"
        \/ \E j \in 1..Len(doc_types.items) : doc_types.items[j] = TypeAttr(i)}

\* The k-th smallest element of a set of indices.
KthOf(S, k) == CHOOSE i \in S : Cardinality({j \in S : j < i}) = k - 1

\* C1: whenever get_preferred_document_types returns for a doc_types that is
\* None, a list or a tuple, the list holds exactly one record per document
\* whose type attribute is in doc_types (every document for None), in source
\* order: the k-th record is the record of the k-th selected document.
C1_SelectionInSourceOrder ==
    (ret.op = "get_preferred_document_types" /\ ~Raised(ret.res)) =>
        LET sel == SelectedIndices(ret.doc_types)
        IN  /\ Len(ret.res.val) = Cardinality(sel)
            /\ \A k \in 1..Len(ret.res.val) :
                  ret.res.val[k] =
                      get_doc_from_opus_soup(opus_soup[KthOf(sel, k)],
                                             TypeAttr(KthOf(sel, k))).val

\* A selection that skips the first of two documents, and one that keeps two
\* different documents.
C1_Witness ==
    /\ ret.op = "get_preferred_document_types"
    /\ ~Raised(ret.res)
    /\ Len(opus_soup) = 2
    /\ \/ /\ ret.doc_types.cls = "list"
          /\ SelectedIndices(ret.doc_types) = {2}
          /\ Len(ret.res.val) = 1
       \/ /\ ret.doc_types.cls = "tuple"
          /\ Len(ret.res.val) = 2
          /\ ret.res.val[1] # ret.res.val[2]

\* C2: building the record of a document never raises, and every value of
\* the record is a string (the empty string for missing data, never None).
C2_RecordNeverRaisesAllStrings ==
    ret.op = "get_doc_from_opus_soup" =>
        /\ ~Raised(ret.res)
        /\ \A k \in DOMAIN ret.res.val : ret.res.val[k] # None

\* The bundle the dispatch table names for a type, the grey-literature
\* bundle for any other type.
BundleFor(doc, doc_type) ==
    CASE doc_type \in {"article", "contributiontoperiodical", "periodicalpart"}
            -> get_journal_data(doc)
      [] doc_type \in {"bachelorthesis", "doctoralthesis", "masterthesis"}
            -> get_thesis_data(doc)
      [] doc_type = "conferenceobject" -> get_conference_object_data(doc)
      [] doc_type = "bookpart" -> get_book_collection_data(doc)
      [] doc_type = "book" -> get_book_data(doc)
      [] OTHER -> get_grey_lit_data(doc)

\* C3: get_specific_doc_data returns the bundle of the requested type and
\* its outcome does not depend on the bundles of the other types: on every
\* document on which the bundle of the requested type can be built, the call
\* does not raise and returns that bundle.
C3_DispatchIndependentOfOtherBundles ==
    (/\ ret.op = "get_specific_doc_data"
     /\ ~Raised(BundleFor(opus_soup[ret.doc], ret.doc_type))) =>
        /\ ~Raised(ret.res)
        /\ ret.res.val = BundleFor(opus_soup[ret.doc], ret.doc_type).val

\* The type tag the inventory reports for the i-th document.
TagOf(i) == get(opus_soup[i], "Type", "greylit")

\* C7: identify_available_doc_types returns a list in strictly increasing
\* lexicographic order (sorted, no duplicates) whose elements are exactly the
\* type tags of the loaded documents, "greylit" for a document without a
\* type attribute.
C7_InventorySortedDistinctExact ==
    ret.op = "identify_available_doc_types" =>
        LET r == ret.res.val
        IN  /\ ~Raised(ret.res)
            /\ \A i, j \in 1..Len(r) : i < j => StrLt(r[i], r[j])
            /\ {r[i] : i \in 1..Len(r)} = {TagOf(i) : i \in 1..Len(opus_soup)}
            /\ \A i \in 1..Len(opus_soup) :
                  "Type" \notin DOMAIN opus_soup[i].attrs =>
                      \E k \in 1..Len(r) : r[k] = "greylit"

\* An unlabeled document loaded before a labeled one whose tag sorts first,
\* and two documents of one tag reported once.
C7_Witness ==
    /\ ret.op = "identify_available_doc_types"
    /\ Len(opus_soup) = 2
    /\ \/ /\ "Type" \notin DOMAIN opus_soup[1].attrs
          /\ ret.res.val = <<"article", "greylit">>
       \/ /\ TagOf(1) = TagOf(2)
          /\ opus_soup[1] # opus_soup[2]
          /\ Len(ret.res.val) = 1

\* The four mappings get_doc_from_opus_soup merges, for the i-th document.
BasicOf(i) ==
    basic_doc_data(TypeAttr(i), get_publication_year(opus_soup[i]).val,
                   get_persons(opus_soup[i], "author").val,
                   title_main(opus_soup[i]).val)
SpecificOf(i) == get_specific_doc_data(opus_soup[i], TypeAttr(i)).val
EnrichmentOf(i) == get_enrichment_fields(opus_soup[i]).val
CollectionOf(i) == get_collection_fields(opus_soup[i]).val

Disjoint(f, g) == DOMAIN f \cap DOMAIN g = {}

\* C9: the record built for a document is the merge of the basic, the
\* type-specific, the enrichment and the collection mapping, the later one
\* deciding a shared key, and the key sets of the four are pairwise disjoint.
C9_MergeOrderAndDisjointKeys ==
    (ret.op = "get_doc_from_opus_soup" /\ ~Raised(ret.res)) =>
        LET b == BasicOf(ret.doc)
            s == SpecificOf(ret.doc)
            e == EnrichmentOf(ret.doc)
            c == CollectionOf(ret.doc)
            rec == ret.res.val
        IN  /\ DOMAIN rec = DOMAIN b \cup DOMAIN s \cup DOMAIN e \cup DOMAIN c
            /\ \A k \in DOMAIN rec :
                  rec[k] = IF k \in DOMAIN c THEN c[k]
                           ELSE IF k \in DOMAIN e THEN e[k]
                           ELSE IF k \in DOMAIN s THEN s[k]
                           ELSE b[k]
            /\ Disjoint(b, s) /\ Disjoint(b, e) /\ Disjoint(b, c)
            /\ Disjoint(s, e) /\ Disjoint(s, c) /\ Disjoint(e, c)

\* A record with enrichment and collection fields, one enrichment key name
\* lowercasing to a basic field name.
C9_Witness ==
    /\ ret.op = "get_doc_from_opus_soup"
    /\ ~Raised(ret.res)
    /\ "enrichment_title" \in DOMAIN EnrichmentOf(ret.doc)
    /\ DOMAIN CollectionOf(ret.doc) # {}
    /\ ret.res.val["title"] = "On Computing"

\* C10: for every tag t of the inventory, doc_types = [t] selects exactly
\* the documents the inventory counted under t (so at least one), and every
\* record built for them has t in its "type" field.
C10_InventoryAgreesWithSelection ==
    (/\ ret.op = "get_preferred_document_types"
     /\ ret.doc_types.cls = "list"
     /\ Len(ret.doc_types.items) = 1
     /\ \E i \in 1..Len(opus_soup) : TagOf(i) = ret.doc_types.items[1]) =>
        LET t == ret.doc_types.items[1]
            counted == {i \in 1..Len(opus_soup) : TagOf(i) = t}
        IN  /\ \A i \in 1..Len(opus_soup) :
                  preferred(opus_soup[i], ret.doc_types) <=> i \in counted
            /\ ~Raised(ret.res) =>
                  /\ Len(ret.res.val) = Cardinality(counted)
                  /\ \A k \in 1..Len(ret.res.val) : ret.res.val[k]["type"] = t

\* ----------------------------------------------------------------------
\* Properties of the writers (checked under SpecIO)
\* ----------------------------------------------------------------------
CsvFiles == {n \in DOMAIN fs : n[2] = ".csv"}
JsonFiles == {n \in DOMAIN fs : n[2] = ".json"}

\* The union of the keys of a list of records.
KeysOf(recs) == UNION {DOMAIN recs[i] : i \in 1..Len(recs)}

RECURSIVE Flatten(_)
Flatten(lists) == IF lists = <<>> THEN <<>> ELSE Head(lists) \o Flatten(Tail(lists))

\* The number of lines the calls before the c-th wrote to a CSV file.
LinesBefore(n, c) == 1 + Len(Flatten(SubSeq(emitted[n], 1, c - 1)))

\* C4 as stated: in every CSV file the header is the union of the keys of
\* all records emitted into the file, and every row has a value for exactly
\* the header's columns.
C4_HeaderIsUnionOfAllEmittedKeys ==
    \A n \in CsvFiles :
        /\ fs[n][1].kind = "header"
        /\ fs[n][1].cells = KeysOf(Flatten(emitted[n]))
        /\ \A i \in 2..Len(fs[n]) :
              fs[n][i].kind = "row" /\ DOMAIN fs[n][i].cells = fs[n][1].cells

\* C4 amended: the header of a CSV file is the union of the keys of the
\* records of the first call that wrote the file, and every row has a value
\* for exactly the union of the keys of the records of the call that wrote it.
C4_HeaderAndRowsPerCall ==
    \A n \in CsvFiles :
        /\ fs[n][1].kind = "header"
        /\ fs[n][1].cells = KeysOf(emitted[n][1])
        /\ \A c \in 1..Len(emitted[n]) : \A k \in 1..Len(emitted[n][c]) :
              LET line == fs[n][LinesBefore(n, c) + k]
              IN  /\ line.kind = "row"
                  /\ DOMAIN line.cells = KeysOf(emitted[n][c])
                  /\ \A h \in DOMAIN line.cells \ DOMAIN emitted[n][c][k] :
                        line.cells[h] = ""

\* Two calls with different key unions wrote one file, the first one two
\* records of different key sets.
C4_Witness ==
    \E n \in CsvFiles :
        /\ Len(emitted[n]) = 2
        /\ Len(emitted[n][1]) = 2
        /\ DOMAIN emitted[n][1][1] # DOMAIN emitted[n][1][2]
        /\ KeysOf(emitted[n][1]) # KeysOf(emitted[n][2])
        /\ Len(emitted[n][2]) >= 1

\* A CSV file holds one header, its first line, then one row per emitted
\* record, in the order the records were emitted.
OneHeaderThenRows ==
    \A n \in CsvFiles :
        LET recs == Flatten(emitted[n])
        IN  /\ Len(fs[n]) = 1 + Len(recs)
            /\ fs[n][1].kind = "header"
            /\ \A k \in 1..Len(recs) :
                  /\ fs[n][k + 1].kind = "row"
                  /\ \A h \in DOMAIN recs[k] :
                        /\ h \in DOMAIN fs[n][k + 1].cells
                        /\ fs[n][k + 1].cells[h] = csv_field(recs[k][h])

\* A to_csv call writes a header exactly when it finds the file empty, adds
\* one line per selected record and changes no line the file held.
AppendsOnly ==
    \A n \in CsvFiles :
        /\ n \in DOMAIN fs'
        /\ Len(fs'[n]) >= Len(fs[n])
        /\ SubSeq(fs'[n], 1, Len(fs[n])) = fs[n]
        /\ \A i \in (Len(fs[n]) + 1)..Len(fs'[n]) : fs'[n][i].kind = "row"

HeaderIffEmpty ==
    (ncalls' = ncalls + 1 /\ ret'.op = "to_csv" /\ ret'.exc = NoExc) =>
        LET n == ret'.name
            old == OpenAppend(n)
            docs == get_preferred_document_types(ret'.doc_types).val
        IN  /\ Len(fs'[n]) = Len(old) + (IF old = <<>> THEN 1 ELSE 0) + Len(docs)
            /\ old = <<>> => fs'[n][1].kind = "header"

\* C5: each to_csv call writes a header row iff the file is empty when
\* opened, appends one row per selected record in record order and leaves
\* the lines already in the file unchanged; a file holds exactly one header
\* row, its first line, followed by the rows of the calls in call order.
C5_OneHeaderRowsAccumulate ==
    /\ []OneHeaderThenRows
    /\ [][AppendsOnly /\ HeaderIffEmpty]_vars

\* A file two calls appended to: it holds more rows than documents are loaded.
C5_Witness ==
    \E n \in CsvFiles :
        /\ Len(emitted[n]) = 2
        /\ Len(emitted[n][1]) >= 1
        /\ Len(fs[n]) > 1 + Len(opus_soup)
        /\ Len(fs[n]) >= 4

\* The JSON array of a list of records.
IsArrayOf(line, recs) ==
    /\ line.kind = "json_array"
    /\ Len(line.items) = Len(recs)
    /\ \A k \in 1..Len(recs) :
          /\ DOMAIN line.items[k].members = DOMAIN recs[k]
          /\ \A h \in DOMAIN recs[k] :
                line.items[k].members[h] =
                    IF recs[k][h] = None THEN [json |-> "null"]
                    ELSE [json |-> "string", s |-> recs[k][h]]

JsonCompleted == ncalls' = ncalls + 1 /\ ret'.op = "to_json" /\ ret'.exc = NoExc

\* C6: a JSON file holds exactly one array; after a to_json call it is the
\* array of the records of that call, whatever the file held before; so the
\* same call made again leaves the content as it was.
C6_JsonHoldsLastCallOnly ==
    /\ [](\A n \in JsonFiles : Len(fs[n]) = 1 /\ fs[n][1].kind = "json_array")
    /\ [][JsonCompleted =>
            /\ Len(fs'[ret'.name]) = 1
            /\ \A recs \in {get_preferred_document_types(ret'.doc_types).val} :
                  IsArrayOf(fs'[ret'.name][1], recs)
            /\ (/\ ret.op = "to_json"
                /\ ret.exc = NoExc
                /\ ret.name = ret'.name
                /\ ret.doc_types = ret'.doc_types) => fs'[ret'.name] = fs[ret'.name]
         ]_vars

\* A second to_json call on a file a first one wrote: only JSON was written,
\* and the array holds fewer records than documents are loaded.
C6_Witness ==
    /\ ncalls = 2
    /\ ret.op = "to_json"
    /\ ret.exc = NoExc
    /\ DOMAIN fs = {<<"out", ".json">>}
    /\ Len(fs[ret.name][1].items) = 1
    /\ Len(opus_soup) = 2

\* A doc_types argument that is supplied and is not an ordered sequence of
\* type strings.
NotSequenceOfStrings(doc_types) ==
    /\ doc_types.cls # "NoneType"
    /\ \/ doc_types.cls \notin {"list", "tuple"}
       \/ \E i \in 1..Len(doc_types.items) : doc_types.items[i] = None

\* C8 as stated: a writer call whose doc_types is supplied and is not an
\* ordered sequence of type strings fails with the invalid-argument error
\* (TypeError) and writes nothing.
C8_RejectsNonStringSequences ==
    [][(ncalls' = ncalls + 1 /\ NotSequenceOfStrings(ret'.doc_types)) =>
            (ret'.exc = "TypeError" /\ fs' = fs)]_vars

\* C8 amended: a writer call whose doc_types is supplied and is neither a
\* list nor a tuple fails with TypeError and leaves every file as it was;
\* a list or tuple passes the argument check whatever it holds.
C8_RejectsNonListOrTuple ==
    [][ncalls' = ncalls + 1 =>
            /\ ret'.doc_types.cls \notin {"list", "tuple", "NoneType"} =>
                  (ret'.exc = "TypeError" /\ fs' = fs)
            /\ ret'.doc_types.cls \in {"list", "tuple", "NoneType"} =>
                  ret'.exc # "TypeError"]_vars

\* A string and a set were rejected after a first call had written a file.
C8_Witness ==
    /\ ncalls = 2
    /\ ret.exc = "TypeError"
    /\ ret.doc_types.cls \in {"str", "set"}
    /\ DOMAIN fs # {}

====
